---- MODULE Spec2Model ----
(***************************************************************************)
(* State-machine model of the managers of the reconstruction pipeline:     *)
(*   - PostManager            (src/mlreco/post/manager.py)                  *)
(*   - BuildManager           (src/spine/build/manager.py)                  *)
(*   - TrackExtremaProcessor  (src/spine/post/reco/points.py)               *)
(* Python dictionaries are functions whose DOMAIN is the set of present    *)
(* keys; Python lists are sequences (index e of Python is e + 1 here).     *)
(***************************************************************************)
EXTENDS Integers, Sequences, FiniteSets, TLC

VARIABLES
    cfg,        \* PostManager: configuration mapping, in declaration order
    modules,    \* PostManager.modules: module keys in execution order
    moduleOut,  \* the result shapes (ordered field keys) a module may return
    data,       \* the batch dictionary handed to the manager under study
    ppc,        \* position inside PostManager.__call__
    mi,         \* position of the module loop of PostManager.__call__
    key,        \* the Python local `key` of PostManager.__call__
    watchLog,   \* StopwatchManager: the start/stop events, in order
    callLog,    \* the module invocations <<module key, entry>>, in order
    written,    \* the fields PostManager.__call__ wrote into data
    perr,       \* the exception that ended PostManager.__call__ ("none": none)
    sources,    \* BuildManager.sources: canonical field -> candidate keys
    managers,   \* the BuildManager instances constructed so far, in order
    mode,       \* BuildManager.mode
    units,      \* BuildManager.units
    builders,   \* BuildManager.builders: the enabled builders, in order
    objChoices, \* which object lists a builder may produce for one entry
    bpc,        \* position inside BuildManager.__call__
    bi,         \* position of the builder loop of BuildManager.__call__
    load,       \* the Python local `load` of BuildManager.__call__
    update,     \* what the last direct call of build_sources returned
    buildLog,   \* builder runs and match-pair loads, in order
    bwritten,   \* the fields BuildManager.__call__ wrote into data
    berr,       \* the exception that ended the BuildManager operation
    method,     \* TrackExtremaProcessor.method
    tpc,        \* position of TrackExtremaProcessor.process
    terr        \* the exception that ended TrackExtremaProcessor.process

postVars == <<cfg, modules, moduleOut, ppc, mi, key, watchLog, callLog,
              written, perr>>

buildVars == <<sources, managers, mode, units, builders, objChoices, bpc, bi,
               load, update, buildLog, bwritten, berr>>

trackVars == <<method, tpc, terr>>

vars == <<data, postVars, buildVars, trackVars>>

(***************************************************************************)
(* Bounds of the model.                                                    *)
(***************************************************************************)
MaxModules == 4         \* modules of a configuration (ordering study)
MaxRunModules == 2      \* modules of a configuration (result study)
MaxEntries == 2         \* entries of a batch
MaxObjects == 2         \* objects of one kind in an entry
MaxParticles == 2       \* reconstructed particles of an entry (track study)
MaxManagers == 2        \* BuildManager instances of a process (class study)

(***************************************************************************)
(* Generic helpers.                                                        *)
(***************************************************************************)
Range(s) == {s[i] : i \in 1..Len(s)}

Perms(n) == {p \in [1..n -> 1..n] : \A i, j \in 1..n : i # j => p[i] # p[j]}

Put(d, k, v) == [x \in DOMAIN d \cup {k} |-> IF x = k THEN v ELSE d[x]]

(***************************************************************************)
(* PostManager.__init__                                                    *)
(***************************************************************************)
ModuleKeys == <<"m1", "m2", "m3", "m4", "m5", "m6">>

DefaultPriority == -1

\* One configuration entry: has = ('priority' in cfg[k]).
CfgEntries ==
    {[has |-> FALSE, priority |-> 0]}
        \cup {[has |-> TRUE, priority |-> p] : p \in {-1, 5, 10}}

Configs(n) == UNION {[1..k -> CfgEntries] : k \in 1..n}

\* priorities[i] after the loop of lines 30-33.
Priority(c) == IF c.has THEN c.priority ELSE DefaultPriority

\* The key np.argsort is given at line 38: -priorities.
SortKey(p) == -p

\* np.argsort(vals) with the default kind ('quicksort'): an index permutation
\* that sorts vals; the order of equal values is not specified by numpy, so
\* every sorting permutation is an outcome.
Argsort(vals) ==
    {p \in Perms(Len(vals)) :
        \A i, j \in 1..Len(vals) : i < j => vals[p[i]] <= vals[p[j]]}

\* self.modules (its keys, in insertion order) after __init__ on configuration c.
PostManagerInit(c) ==
    {[i \in 1..Len(c) |-> ModuleKeys[p[i]]] :
        p \in Argsort([i \in 1..Len(c) |-> SortKey(Priority(c[i]))])}

\* Declaration position of a module key.
DeclIndex(k) == CHOOSE i \in 1..Len(ModuleKeys) : ModuleKeys[i] = k

(***************************************************************************)
(* PostManager.__call__                                                    *)
(***************************************************************************)
\* data['index']: a scalar, or a list of n entry numbers.
IndexValues ==
    {[scalar |-> TRUE, n |-> 0]}
        \cup {[scalar |-> FALSE, n |-> n] : n \in 1..MaxEntries}

IsScalar(d) == d["index"].scalar

\* What one module invocation returns: the field keys of the result
\* dictionary in its iteration order; the value of field f returned by
\* module m for entry e is the token Val(m, e) (e = 0 in single-entry mode).
Val(m, e) == [by |-> m, entry |-> e]

RichShapes == {<<>>, <<"f">>, <<"f", "g">>}
PlainShapes == {<<>>, <<"f">>}

\* lines 62-66: result = defaultdict(list) filled entry by entry.  shapes[e]
\* is the shape returned for entry e (1-based).  The result is a sequence of
\* [field, vals] in first-insertion order.
RECURSIVE AppendAll(_, _, _)
AppendAll(result, shape, v) ==
    IF shape = <<>> THEN result
    ELSE LET f == Head(shape)
             at == {i \in 1..Len(result) : result[i].field = f}
             next == IF at = {}
                     THEN Append(result, [field |-> f, vals |-> <<v>>])
                     ELSE [result EXCEPT ![CHOOSE i \in at : TRUE].vals =
                                             Append(@, v)]
         IN AppendAll(next, Tail(shape), v)

RECURSIVE Collect(_, _, _, _)
Collect(result, m, shapes, e) ==
    IF e > Len(shapes) THEN result
    ELSE Collect(AppendAll(result, shapes[e], Val(m, e - 1)), m, shapes, e + 1)

\* The Python local `key` after the entry loop: line 65 rebinds the `key` of
\* line 55 for every field of every per-entry result.
RECURSIVE KeyAfterLoop(_, _, _)
KeyAfterLoop(k, shapes, e) ==
    IF e > Len(shapes) THEN k
    ELSE KeyAfterLoop(IF shapes[e] = <<>> THEN k
                      ELSE shapes[e][Len(shapes[e])], shapes, e + 1)

\* StopwatchManager.stop(k) (mlreco.utils.stopwatch, not part of the sources
\* at hand): stopping the running watch succeeds; stopping a key that is not
\* the running watch either raises or passes.
WatchStopOutcomes(k, running) ==
    IF k = running THEN {"ok"} ELSE {"ok", "raise"}

\* lines 70-72 in batched mode: merge the fields in order, stopping at the
\* first failing assertion.  Returns [data, written, ok].
RECURSIVE MergeBatch(_, _, _, _, _)
MergeBatch(d, w, result, i, n) ==
    IF i > Len(result) THEN [data |-> d, written |-> w, ok |-> TRUE]
    ELSE IF Len(result[i].vals) # n
         THEN [data |-> d, written |-> w, ok |-> FALSE]
         ELSE MergeBatch(Put(d, result[i].field, result[i].vals),
                         w \cup {result[i].field}, result, i + 1, n)

\* Entering __call__ (line 55: the iteration over self.modules starts).
PostCall ==
    /\ ppc = "idle"
    /\ ppc' = "loop"
    /\ mi' = 1
    /\ UNCHANGED <<cfg, modules, moduleOut, data, key, watchLog, callLog,
                   written, perr, buildVars, trackVars>>

\* One iteration of the module loop in single-entry mode (lines 55-59, 67-72).
PostModuleScalar ==
    /\ ppc = "loop"
    /\ mi <= Len(modules)
    /\ IsScalar(data)
    /\ \E shape \in moduleOut :
        LET m == modules[mi] IN
        /\ callLog' = Append(callLog, <<m, 0>>)
        /\ key' = IF shape = <<>> THEN m ELSE shape[1]
        /\ watchLog' = watchLog \o <<[op |-> "start", key |-> m],
                                     [op |-> "stop", key |-> m]>>
        \* line 71: num_entries is never bound in single-entry mode
        /\ IF shape = <<>>
           THEN /\ mi' = mi + 1
                /\ UNCHANGED <<ppc, perr>>
           ELSE /\ ppc' = "raised"
                /\ perr' = "unbound"
                /\ UNCHANGED mi
        /\ UNCHANGED <<cfg, modules, moduleOut, data, written, buildVars,
                       trackVars>>

\* One iteration of the module loop in batched mode (lines 55-57, 60-72).
PostModuleBatch ==
    /\ ppc = "loop"
    /\ mi <= Len(modules)
    /\ ~IsScalar(data)
    /\ \E shapes \in [1..data["index"].n -> moduleOut] :
        LET m == modules[mi]
            n == data["index"].n
            result == Collect(<<>>, m, shapes, 1)
            k == KeyAfterLoop(m, shapes, 1)
            merged == MergeBatch(data, written, result, 1, n)
            last == IF result = <<>> THEN k ELSE result[Len(result)].field
        IN
        /\ callLog' = callLog \o [e \in 1..n |-> <<m, e - 1>>]
        /\ \E out \in WatchStopOutcomes(k, m) :
            IF out = "raise"
            THEN /\ watchLog' = Append(watchLog, [op |-> "start", key |-> m])
                 /\ key' = k
                 /\ ppc' = "raised"
                 /\ perr' = "stop"
                 /\ UNCHANGED <<mi, data, written>>
            ELSE /\ watchLog' = watchLog \o <<[op |-> "start", key |-> m],
                                              [op |-> "stop", key |-> k]>>
                 /\ data' = merged.data
                 /\ written' = merged.written
                 /\ IF merged.ok
                    THEN /\ key' = last
                         /\ mi' = mi + 1
                         /\ UNCHANGED <<ppc, perr>>
                    ELSE /\ key' = result[Cardinality(merged.written
                                        \ written) + 1].field
                         /\ ppc' = "raised"
                         /\ perr' = "assert"
                         /\ UNCHANGED mi
        /\ UNCHANGED <<cfg, modules, moduleOut, buildVars, trackVars>>

\* The module loop is exhausted: __call__ returns.
PostReturn ==
    /\ ppc = "loop"
    /\ mi > Len(modules)
    /\ ppc' = "done"
    /\ UNCHANGED <<cfg, modules, moduleOut, data, mi, key, watchLog, callLog,
                   written, perr, buildVars, trackVars>>

NextPost == PostCall \/ PostModuleScalar \/ PostModuleBatch \/ PostReturn

(***************************************************************************)
(* BuildManager: class attribute `sources` and __init__                    *)
(***************************************************************************)
\* A value of the sources mapping: a single key name (a Python str) or a
\* list of key names.
Str(k) == [str |-> TRUE, alts |-> <<k>>]
List(l) == [str |-> FALSE, alts |-> l]

CanonicalKeys ==
    {"data_tensor", "label_tensor", "label_adapt_tensor", "label_g4_tensor",
     "depositions_q_label", "sources", "sources_label", "particles",
     "neutrinos"}

\* The class attribute BuildManager.sources as written in the class body.
DefaultSources ==
    [c \in CanonicalKeys |->
        CASE c = "data_tensor" -> List(<<"data_adapt", "data">>)
          [] c = "label_tensor" -> Str("clust_label")
          [] c = "label_adapt_tensor" ->
                List(<<"clust_label_adapt", "clust_label">>)
          [] c = "label_g4_tensor" -> Str("clust_label_g4")
          [] c = "depositions_q_label" -> Str("charge_label")
          [] c = "sources" -> List(<<"sources_adapt", "sources">>)
          [] c = "sources_label" -> Str("sources_label")
          [] c = "particles" -> Str("particles")
          [] c = "neutrinos" -> Str("neutrinos")]

\* lines 69-73: a str value becomes a one-element list.
Normalise(v) == IF v.str THEN List(v.alts) ELSE v

\* lines 62-73: the sources mapping after __init__ with the `sources`
\* argument override (the empty mapping stands for None as well).
ParseSources(current, override) ==
    [c \in DOMAIN current |->
        Normalise(IF c \in DOMAIN override THEN override[c] ELSE current[c])]

\* lines 64-66: the assertion on the keys of the override.
OverrideAccepted(current, override) == DOMAIN override \subseteq DOMAIN current

NoOverride == [c \in {} |-> List(<<>>)]

SourceOverrides ==
    {NoOverride,
     [c \in {"data_tensor"} |-> List(<<"data", "data_adapt">>)],
     [c \in {"label_tensor"} |-> Str("clust_label_adapt")]}

\* lines 76-86: the builders enabled by the three flags, in insertion order.
BuilderList(fragments, particles, interactions) ==
    (IF fragments THEN <<"fragment">> ELSE <<>>)
        \o (IF particles THEN <<"particle">> ELSE <<>>)
        \o (IF interactions THEN <<"interaction">> ELSE <<>>)

\* lines 82-89: the two assertions of __init__ on the flags.
FlagsAccepted(fragments, particles, interactions) ==
    /\ interactions => particles
    /\ BuilderList(fragments, particles, interactions) # <<>>

BuilderConfigs ==
    {BuilderList(f, p, i) : <<f, p, i>> \in
        {t \in BOOLEAN \X BOOLEAN \X BOOLEAN : FlagsAccepted(t[1], t[2], t[3])}}

Modes == {"reco", "truth", "both", "all"}

\* A constructed instance: the `sources` argument it was given and its
\* builders.  __init__ never assigns an attribute `sources` to the instance
\* (line 67 updates, lines 71 and 73 assign items of, the mapping that
\* `self.sources` finds), so an instance holds no mapping of its own.
Manager(override, blist) == [override |-> override, builders |-> blist]

\* `self.sources` of the i-th instance: the attribute lookup falls through
\* to the class attribute of lines 24-34, the one mapping of all instances.
SourcesOf(i) == sources

\* The `sources` arguments of the class study: the overrides above and one
\* with a key outside the canonical names.
ConstructorOverrides ==
    SourceOverrides \cup {[c \in {"points"} |-> Str("points")]}

\* The `mode` arguments of the class study: a valid one and an invalid one.
ConstructorModes == {"both", "other"}

\* BuildManager(fragments, particles, interactions, mode, units, sources):
\* lines 55-89.  The assertions run in the order of the code, so a failing
\* assertion on the flags (lines 82-89) leaves the mapping already updated.
BuildManagerNew ==
    /\ ppc = "off" /\ bpc = "off" /\ tpc = "off"
    /\ Len(managers) < MaxManagers
    /\ \E m \in ConstructorModes, ov \in ConstructorOverrides,
          f \in BOOLEAN, p \in BOOLEAN, i \in BOOLEAN :
        IF m \notin Modes \/ ~OverrideAccepted(sources, ov)
        THEN /\ berr' = "assert"
             /\ UNCHANGED <<sources, managers>>
        ELSE /\ sources' = ParseSources(sources, ov)
             /\ IF FlagsAccepted(f, p, i)
                THEN /\ managers' =
                        Append(managers, Manager(ov, BuilderList(f, p, i)))
                     /\ berr' = "none"
                ELSE /\ berr' = "assert"
                     /\ UNCHANGED managers
    /\ UNCHANGED <<data, mode, units, builders, objChoices, bpc, bi, load,
                   update, buildLog, bwritten, postVars, trackVars>>

NextClass == BuildManagerNew

(***************************************************************************)
(* Values of the batch dictionary of the BuildManager                      *)
(***************************************************************************)
\* `entry` arguments: <<>> is None, <<e>> is entry number e.
NoEntry == <<>>
AtEntry(v, entry) == IF entry = NoEntry THEN v ELSE v[entry[1] + 1]
EntryNo(entry) == IF entry = NoEntry THEN 0 ELSE entry[1]

\* Per-entry value of a batch dictionary field: the value itself in
\* single-entry mode, the list of per-entry values in batched mode.
Field(ix, perEntry) ==
    IF ix.scalar THEN perEntry[0] ELSE [e \in 1..ix.n |-> perEntry[e - 1]]

KeyCode(k) ==
    CASE k = "data_adapt" -> 1 [] k = "data" -> 2
      [] k = "clust_label" -> 3 [] k = "clust_label_adapt" -> 4
      [] k = "clust_label_g4" -> 5 [] k = "charge_label" -> 6
      [] k = "sources_adapt" -> 7 [] k = "sources" -> 8
      [] k = "sources_label" -> 9
      [] k = "fragment_start_points" -> 10 [] k = "fragment_end_points" -> 11
      [] k = "particle_start_points" -> 12 [] k = "particle_end_points" -> 13
      [] OTHER -> 14

\* The tensor stored under key k for entry e: its content is told apart by
\* k and e.  coord stands for the coordinate columns (pixels), value for the
\* value column.
Tensor(k, e) ==
    [origin |-> k, entry |-> e, coord |-> 4 * KeyCode(k) + e,
     value |-> 100 + 4 * KeyCode(k) + e, int |-> FALSE]

\* t[:, COORD_COLS] and t[:, VALUE_COL].  `units` is not data of the array:
\* it records the unit system the coordinates really are in.
Coords(t) ==
    [origin |-> t.origin, entry |-> t.entry, col |-> "coord", x |-> t.coord,
     units |-> "px"]
Values(t) ==
    [origin |-> t.origin, entry |-> t.entry, col |-> "value", x |-> t.value,
     units |-> "none"]

\* t.astype(int)
AsInt(t) == [t EXCEPT !.int = TRUE]

\* A start/end point array of the chain output, in pixels.
PointArray(k, e) ==
    [origin |-> k, entry |-> e, col |-> "coord", x |-> 4 * KeyCode(k) + e,
     units |-> "px"]

\* The metadata of entry e.
Meta(e) == [lower |-> -50 - 10 * e, size |-> 3]

\* Meta.to_cm(coords, center=True) (spine.utils.geo, not part of the sources
\* at hand): the affine pixel-to-centimetre map, here in half pixels so that
\* the centre offset is an integer.  It does not look at what it is given:
\* coordinates that are centimetres already come out as neither.
ToCm(meta, a) ==
    [a EXCEPT !.x = 2 * meta.lower + meta.size * (2 * a.x + 1),
              !.units = IF a.units = "px" THEN "cm" ELSE "cm_of_cm"]

\* A true object (particle, neutrino) with its units tag.
TrueObject(i, e, u) == [id |-> i, entry |-> e, units |-> u, x |-> 7 + i + e]

\* obj.to_cm(meta) of a true object: converts its coordinates in place and
\* sets its tag (spine.data, not part of the sources at hand).
ObjToCm(meta, o) ==
    [o EXCEPT !.x = 2 * meta.lower + meta.size * (2 * o.x + 1),
              !.units = IF o.units = "px" THEN "cm" ELSE "cm_of_cm"]

TrueObjects(e) == <<TrueObject(0, e, "px"), TrueObject(1, e, "cm")>>

OverrideKeys ==
    <<"fragment_start_points", "fragment_end_points",
      "particle_start_points", "particle_end_points">>

\* Whether 'points' is a substring of the name of a field of `update`.
HasPointsInName(k) ==
    k \in {"points", "points_label", "points_g4"} \cup Range(OverrideKeys)

(***************************************************************************)
(* BuildManager.build_sources                                              *)
(***************************************************************************)
RECURSIVE LastPresent(_, _)
LastPresent(alts, d) ==
    IF alts = <<>> THEN <<>>
    ELSE IF alts[Len(alts)] \in DOMAIN d THEN <<alts[Len(alts)]>>
         ELSE LastPresent(SubSeq(alts, 1, Len(alts) - 1), d)

\* lines 154-159: the first candidate key present in the dictionary (<<k>>),
\* or <<>> when none is.
RECURSIVE FirstPresent(_, _)
FirstPresent(alts, d) ==
    IF alts = <<>> THEN <<>>
    ELSE IF Head(alts) \in DOMAIN d THEN <<Head(alts)>>
         ELSE FirstPresent(Tail(alts), d)

\* lines 152-159: the local dictionary `sources`.
FetchSources(srcs, d, entry) ==
    LET found == {c \in DOMAIN srcs : FirstPresent(srcs[c].alts, d) # <<>>}
    IN [c \in found |-> AtEntry(d[FirstPresent(srcs[c].alts, d)[1]], entry)]

ConvertAlways(o, u) == TRUE

\* line 214: the guard on the units tag of a true object.
NeedsConversion(o, u) == o.units # u

\* lines 213-215 on one list of true objects.
ConvertObjects(meta, objs, u) ==
    [i \in 1..Len(objs) |->
        IF NeedsConversion(objs[i], u) THEN ObjToCm(meta, objs[i])
        ELSE objs[i]]

\* lines 162-195: the dictionary `update` before the unit conversion.
\* S is the fetched sources dictionary.
RawUpdate(S, m, d, entry) ==
    LET base == [k \in {"points", "depositions"} |->
                    IF k = "points" THEN Coords(S["data_tensor"])
                    ELSE Values(S["data_tensor"])]
        labels ==
            IF m = "reco" THEN <<>>
            ELSE [k \in {"label_tensor", "points_label", "depositions_label",
                         "label_adapt_tensor", "depositions_label_adapt"}
                        \cup (IF "depositions_q_label" \in DOMAIN S
                              THEN {"depositions_q_label"} ELSE {}) |->
                    CASE k = "label_tensor" -> S["label_tensor"]
                      [] k = "points_label" -> Coords(S["label_tensor"])
                      [] k = "depositions_label" -> Values(S["label_tensor"])
                      [] k = "label_adapt_tensor" -> S["label_adapt_tensor"]
                      [] k = "depositions_label_adapt" ->
                            Values(S["label_adapt_tensor"])
                      [] k = "depositions_q_label" ->
                            Values(S["depositions_q_label"])]
        g4 ==
            IF "label_g4_tensor" \notin DOMAIN S THEN <<>>
            ELSE [k \in {"label_g4_tensor", "points_g4", "depositions_g4"} |->
                    CASE k = "label_g4_tensor" -> S["label_g4_tensor"]
                      [] k = "points_g4" -> Coords(S["label_g4_tensor"])
                      [] k = "depositions_g4" -> Values(S["label_g4_tensor"])]
        ints == [k \in {"sources", "sources_label"} \cap DOMAIN S |->
                    AsInt(S[k])]
        over == [k \in Range(OverrideKeys) \cap DOMAIN d |->
                    AtEntry(d[k], entry)]
        all == DOMAIN base \cup DOMAIN labels \cup DOMAIN g4
                   \cup DOMAIN ints \cup DOMAIN over
    IN [k \in all |->
            \* later assignments to update[k] win
            IF k \in DOMAIN over THEN over[k]
            ELSE IF k \in DOMAIN ints THEN ints[k]
            ELSE IF k \in DOMAIN g4 THEN g4[k]
            ELSE IF k \in DOMAIN labels THEN labels[k]
            ELSE base[k]]

\* The first exception build_sources raises on these inputs ("none": none).
SourcesError(S, m, u, d) ==
    IF "data_tensor" \notin DOMAIN S THEN "KeyError"
    ELSE IF m # "reco" /\ ~({"label_tensor", "label_adapt_tensor"}
                                \subseteq DOMAIN S) THEN "KeyError"
    ELSE IF u # "px" /\ "meta" \notin DOMAIN d THEN "AssertionError"
    ELSE "none"

\* Writes the objects of entry `entry` of field k back into the dictionary:
\* obj.to_cm acts on the objects the dictionary holds.
StoreAtEntry(d, k, entry, v) ==
    IF entry = NoEntry THEN [d EXCEPT ![k] = v]
    ELSE [d EXCEPT ![k][entry[1] + 1] = v]

\* build_sources(data, entry) (lines 151-217): [err, update, data], where
\* data is the dictionary afterwards (its true objects may have been
\* converted in place).
BuildSources(srcs, m, u, d, entry) ==
    LET S == FetchSources(srcs, d, entry)
        err == SourcesError(S, m, u, d)
    IN IF err # "none" THEN [err |-> err, update |-> <<>>, data |-> d]
       ELSE IF u = "px"
       THEN [err |-> "none", update |-> RawUpdate(S, m, d, entry), data |-> d]
       ELSE
        LET raw == RawUpdate(S, m, d, entry)
            meta == AtEntry(d["meta"], entry)
            objKeys == {"particles", "neutrinos"} \cap DOMAIN S
            conv == [k \in objKeys |-> ConvertObjects(meta, S[k], u)]
            upd == [k \in DOMAIN raw \cup objKeys |->
                        IF k \in objKeys THEN conv[k]
                        ELSE IF HasPointsInName(k) THEN ToCm(meta, raw[k])
                        ELSE raw[k]]
            \* the objects of S[k] are those of d[alt]
            after == [k \in DOMAIN d |->
                        IF \E c \in objKeys :
                              FirstPresent(srcs[c].alts, d) = <<k>>
                        THEN LET c == CHOOSE c \in objKeys :
                                    FirstPresent(srcs[c].alts, d) = <<k>>
                             IN StoreAtEntry(d, k, entry, conv[c])[k]
                        ELSE d[k]]
        IN [err |-> "none", update |-> upd, data |-> after]


(***************************************************************************)
(* The object builders (external collaborators) and their objects          *)
(***************************************************************************)
\* The match attributes of an object, as stored by the upstream matcher.
\* Overlaps are in tenths (9 is 0.9).
Unmatched == [is_matched |-> FALSE, match_ids |-> <<>>, match_overlaps |-> <<>>]
Matched(ids, ovs) ==
    [is_matched |-> TRUE, match_ids |-> ids, match_overlaps |-> ovs]

\* The match attributes an object may carry when there are t targets: it is
\* unmatched, or matched to one or two distinct targets.
MatchAttrs(t) ==
    {Unmatched}
        \cup {Matched(<<a>>, <<9>>) : a \in 0..(t - 1)}
        \cup {Matched(<<a, b>>, ov) :
                <<a, b, ov>> \in {x \in (0..(t - 1)) \X (0..(t - 1))
                                        \X {<<9, 4>>, <<4, 9>>} : x[1] # x[2]}}

\* Object lists of one entry: [reco, truth], each a sequence of match attributes.
\* One side carries any attributes, the other side is unmatched.
RichObjects(n) ==
    UNION {
        {[reco |-> r, truth |-> [i \in 1..t |-> Unmatched]] :
            r \in UNION {[1..k -> MatchAttrs(t)] : k \in 0..n}}
        \cup {[reco |-> [i \in 1..t |-> Unmatched], truth |-> r] :
            r \in UNION {[1..k -> MatchAttrs(t)] : k \in 0..n}}
        : t \in 0..n}

\* Lists of the same length k <= n, object i of one side matched to object
\* k - 1 - i of the other side.
PlainObjects(n) ==
    {[reco |-> [i \in 1..k |-> Matched(<<k - i>>, <<9>>)],
      truth |-> [i \in 1..k |-> Matched(<<k - i>>, <<4>>)]] : k \in 0..n}

\* The object lists named by objChoices.
ObjectChoices(choice) ==
    CASE choice = "rich" -> RichObjects(MaxObjects)
      [] choice = "plain" -> PlainObjects(1)
      [] OTHER -> {[reco |-> <<>>, truth |-> <<>>]}

\* An object of a list: its kind, entry and position tell it apart.
Object(kind, e, i, attrs) ==
    [kind |-> kind, entry |-> e, id |-> i, is_matched |-> attrs.is_matched,
     match_ids |-> attrs.match_ids, match_overlaps |-> attrs.match_overlaps]

ObjectList(kind, e, attrs) ==
    [i \in 1..Len(attrs) |-> Object(kind, e, i - 1, attrs[i])]

\* f'{kind}_{name}s'
ObjKey(kind, name) ==
    CASE kind = "reco" /\ name = "fragment" -> "reco_fragments"
      [] kind = "reco" /\ name = "particle" -> "reco_particles"
      [] kind = "reco" /\ name = "interaction" -> "reco_interactions"
      [] kind = "truth" /\ name = "fragment" -> "truth_fragments"
      [] kind = "truth" /\ name = "particle" -> "truth_particles"
      [] kind = "truth" /\ name = "interaction" -> "truth_interactions"

\* f'{name}_matches_{suffix}' and f'{name}_matches_{suffix}_overlap'
MatchKey(name, suffix) ==
    CASE name = "fragment" /\ suffix = "r2t" -> "fragment_matches_r2t"
      [] name = "fragment" /\ suffix = "t2r" -> "fragment_matches_t2r"
      [] name = "particle" /\ suffix = "r2t" -> "particle_matches_r2t"
      [] name = "particle" /\ suffix = "t2r" -> "particle_matches_t2r"
      [] name = "interaction" /\ suffix = "r2t" -> "interaction_matches_r2t"
      [] name = "interaction" /\ suffix = "t2r" -> "interaction_matches_t2r"

OverlapKey(name, suffix) ==
    CASE name = "fragment" /\ suffix = "r2t" -> "fragment_matches_r2t_overlap"
      [] name = "fragment" /\ suffix = "t2r" -> "fragment_matches_t2r_overlap"
      [] name = "particle" /\ suffix = "r2t" -> "particle_matches_r2t_overlap"
      [] name = "particle" /\ suffix = "t2r" -> "particle_matches_t2r_overlap"
      [] name = "interaction" /\ suffix = "r2t" ->
            "interaction_matches_r2t_overlap"
      [] name = "interaction" /\ suffix = "t2r" ->
            "interaction_matches_t2r_overlap"

MatchFields(name) ==
    {MatchKey(name, "r2t"), OverlapKey(name, "r2t"),
     MatchKey(name, "t2r"), OverlapKey(name, "t2r")}

\* builder(data) (line 122): the builder leaves the lists of reconstructed
\* and/or true objects of its type in the dictionary.  lists[e] holds the
\* match attributes of the objects of entry e - 1.
Builder(d, name, m, lists) ==
    LET ix == d["index"]
        kinds == (IF m # "truth" THEN {"reco"} ELSE {})
                    \cup (IF m # "reco" THEN {"truth"} ELSE {})
        made(kind) ==
            Field(ix, [e \in 0..(Len(lists) - 1) |->
                ObjectList(kind, e, IF kind = "reco" THEN lists[e + 1].reco
                                    ELSE lists[e + 1].truth)])
        keys == {ObjKey(kind, name) : kind \in kinds}
    IN [k \in DOMAIN d \cup keys |->
            IF k = ObjKey("reco", name) /\ "reco" \in kinds THEN made("reco")
            ELSE IF k = ObjKey("truth", name) /\ "truth" \in kinds
                 THEN made("truth")
            ELSE d[k]]

(***************************************************************************)
(* BuildManager.load_match_pairs                                           *)
(***************************************************************************)
None == [none |-> TRUE]

\* The overlap written for an object without a match: -1.0, in tenths.
NoMatchOverlap == -10

LastMatch(obj) == obj.match_ids[Len(obj.match_ids)]

\* line 258: best_match = obj.match_ids[0]
BestMatch(obj) == obj.match_ids[1]

PairZeroOverlap(obj, targets) ==
    IF ~obj.is_matched
    THEN [pair |-> <<obj, None>>, overlap |-> 0]
    ELSE [pair |-> <<obj, targets[BestMatch(obj) + 1]>>,
          overlap |-> obj.match_overlaps[1]]

\* lines 251-260: the pair and the overlap appended for one source object.
PairFor(obj, targets) ==
    IF ~obj.is_matched
    THEN [pair |-> <<obj, None>>, overlap |-> NoMatchOverlap]
    ELSE [pair |-> <<obj, targets[BestMatch(obj) + 1]>>,
          overlap |-> obj.match_overlaps[1]]

PairListMatchedFirst(srcObjs, targets) ==
    LET idx == SelectSeq([i \in 1..Len(srcObjs) |-> i],
                         LAMBDA i : srcObjs[i].is_matched)
                 \o SelectSeq([i \in 1..Len(srcObjs) |-> i],
                              LAMBDA i : ~srcObjs[i].is_matched)
    IN [pairs |-> [i \in 1..Len(idx) |-> PairFor(srcObjs[idx[i]], targets).pair],
        overlaps |-> [i \in 1..Len(idx) |->
                        PairFor(srcObjs[idx[i]], targets).overlap]]

\* lines 248-260: the two lists of one direction, filled in source order.
RECURSIVE PairList(_, _)
PairList(srcObjs, targets) ==
    IF srcObjs = <<>> THEN [pairs |-> <<>>, overlaps |-> <<>>]
    ELSE LET one == PairFor(Head(srcObjs), targets)
             rest == PairList(Tail(srcObjs), targets)
         IN [pairs |-> <<one.pair>> \o rest.pairs,
             overlaps |-> <<one.overlap>> \o rest.overlaps]

\* load_match_pairs(data, name, entry) (lines 232-262): the result dictionary.
LoadMatchPairs(d, name, entry) ==
    LET reco == AtEntry(d[ObjKey("reco", name)], entry)
        truth == AtEntry(d[ObjKey("truth", name)], entry)
        r2t == PairList(reco, truth)
        t2r == PairList(truth, reco)
    IN [k \in MatchFields(name) |->
            CASE k = MatchKey(name, "r2t") -> r2t.pairs
              [] k = OverlapKey(name, "r2t") -> r2t.overlaps
              [] k = MatchKey(name, "t2r") -> t2r.pairs
              [] k = OverlapKey(name, "t2r") -> t2r.overlaps]

(***************************************************************************)
(* BuildManager.__call__                                                   *)
(***************************************************************************)
\* A collection that keeps only the first entry of each key.
AppendEntryOnce(acc, one) ==
    [k \in DOMAIN acc \cup DOMAIN one |->
        IF k \in DOMAIN acc THEN acc[k] ELSE <<one[k]>>]

\* lines 114-115 and 132-133: result[key].append(val) for every item of the
\* per-entry dictionary, on a defaultdict(list).
AppendEntry(acc, one) ==
    [k \in DOMAIN acc \cup DOMAIN one |->
        IF k \in DOMAIN one
        THEN (IF k \in DOMAIN acc THEN acc[k] ELSE <<>>) \o <<one[k]>>
        ELSE acc[k]]

\* data.update(**fields)
Update(d, fields) ==
    [k \in DOMAIN d \cup DOMAIN fields |->
        IF k \in DOMAIN fields THEN fields[k] ELSE d[k]]

\* lines 111-115: the entry loop over build_sources, from entry e on.
RECURSIVE SourcesLoop(_, _, _, _, _, _)
SourcesLoop(srcs, m, u, d, e, acc) ==
    IF e >= d["index"].n THEN [err |-> "none", update |-> acc, data |-> d]
    ELSE LET one == BuildSources(srcs, m, u, d, <<e>>)
         IN IF one.err # "none"
            THEN [err |-> one.err, update |-> acc, data |-> one.data]
            ELSE SourcesLoop(srcs, m, u, one.data, e + 1,
                             AppendEntry(acc, one.update))

\* lines 108-115: the dictionary `sources` of __call__.
CallSources(srcs, m, u, d) ==
    IF IsScalar(d) THEN BuildSources(srcs, m, u, d, NoEntry)
    ELSE SourcesLoop(srcs, m, u, d, 0, <<>>)

\* lines 129-133: the entry loop over load_match_pairs, from entry e on.
RECURSIVE MatchLoop(_, _, _, _)
MatchLoop(d, name, e, acc) ==
    IF e >= d["index"].n THEN acc
    ELSE MatchLoop(d, name, e + 1,
                   AppendEntry(acc, LoadMatchPairs(d, name, <<e>>)))

\* lines 126-133: the dictionary `match_dict` of __call__.
CallMatchPairs(d, name) ==
    IF IsScalar(d) THEN LoadMatchPairs(d, name, NoEntry)
    ELSE MatchLoop(d, name, 0, <<>>)

LoadsPairsAlways(ld, m) == m \in {"both", "all"}

\* line 125: the guard of the match-pair loading.
LoadsPairs(ld, m) == ld /\ m \in {"both", "all"}

\* line 106: the sources are built unless 'points' is in the dictionary.
MustBuildSources(d) == "points" \notin DOMAIN d

\* lines 105-117: the sources are built and merged, unless loaded.
BuildCall ==
    /\ bpc = "idle"
    /\ IF ~MustBuildSources(data)
       THEN /\ load' = TRUE
            /\ bpc' = "loop"
            /\ UNCHANGED <<data, bwritten, berr>>
       ELSE LET r == CallSources(sources, mode, units, data) IN
            /\ load' = FALSE
            /\ IF r.err = "none"
               THEN /\ data' = Update(r.data, r.update)
                    /\ bwritten' = bwritten \cup DOMAIN r.update
                    /\ bpc' = "loop"
                    /\ UNCHANGED berr
               ELSE /\ data' = r.data
                    /\ bpc' = "raised"
                    /\ berr' = r.err
                    /\ UNCHANGED bwritten
    /\ bi' = 1
    /\ UNCHANGED <<sources, managers, mode, units, builders, objChoices, update,
                   buildLog, postVars, trackVars>>

\* lines 120-135: one iteration of the builder loop.
BuildStep ==
    /\ bpc = "loop"
    /\ bi <= Len(builders)
    /\ \E lists \in [1..(IF IsScalar(data) THEN 1 ELSE data["index"].n)
                        -> ObjectChoices(objChoices)] :
        LET name == builders[bi]
            built == Builder(data, name, mode, lists)
        IN IF LoadsPairs(load, mode)
           THEN LET pairs == CallMatchPairs(built, name) IN
                /\ data' = Update(built, pairs)
                /\ bwritten' = bwritten \cup DOMAIN pairs
                /\ buildLog' = buildLog \o <<<<"build", name>>, <<"match", name>>>>
           ELSE /\ data' = built
                /\ buildLog' = Append(buildLog, <<"build", name>>)
                /\ UNCHANGED bwritten
    /\ bi' = bi + 1
    /\ UNCHANGED <<sources, managers, mode, units, builders, objChoices, bpc, load,
                   update, berr, postVars, trackVars>>

\* The builder loop is exhausted: __call__ returns.
BuildReturn ==
    /\ bpc = "loop"
    /\ bi > Len(builders)
    /\ bpc' = "done"
    /\ UNCHANGED <<data, sources, managers, mode, units, builders, objChoices, bi, load,
                   update, buildLog, bwritten, berr, postVars, trackVars>>

\* build_sources called on its own, on the dictionary as it is (single-entry
\* mode, or one entry of a batch): the returned dictionary is kept in `update`.
BuildSourcesCall ==
    /\ bpc \in {"idle", "done"}
    /\ update = <<>>
    /\ \E entry \in (IF IsScalar(data) THEN {NoEntry}
                     ELSE {<<e>> : e \in 0..(data["index"].n - 1)}) :
        LET r == BuildSources(sources, mode, units, data, entry) IN
        /\ r.err = "none"
        /\ update' = [entry |-> entry, before |-> data, fields |-> r.update,
                       after |-> r.data]
        /\ data' = r.data
    /\ UNCHANGED <<sources, managers, mode, units, builders, objChoices, bpc, bi, load,
                   buildLog, bwritten, berr, postVars, trackVars>>

NextBuild == BuildCall \/ BuildStep \/ BuildReturn \/ BuildSourcesCall

(***************************************************************************)
(* TrackExtremaProcessor                                                   *)
(***************************************************************************)
\* spine.utils.globals.TRACK_SHP, and the shapes a particle may have.
TRACK_SHP == 1
Shapes == {0, TRACK_SHP}

Methods == {"local", "gradient", "ppn", "other"}

\* A reconstructed particle of the entry.  `oriented` is what
\* check_track_orientation / check_track_orientation_ppn (external) answer
\* for it.
Particle(i, shape, oriented) ==
    [id |-> i, shape |-> shape, start_point |-> 2 * i + 1,
     end_point |-> 2 * i + 2, oriented |-> oriented]

ParticleLists(n) ==
    UNION {{[i \in 1..k |-> Particle(i - 1, c[i][1], c[i][2])] :
                c \in [1..k -> Shapes \X BOOLEAN]} : k \in 0..n}

IsTrackIgnoringShape(part) == TRUE

\* line 54: only track objects are processed.
IsTrack(part) == part.shape = TRACK_SHP

\* lines 56-72 for one track: the exception raised, or "none".
MethodError(meth, d) ==
    IF meth \in {"local", "gradient"} THEN "none"
    ELSE IF meth = "ppn"
         THEN (IF "ppn_candidates" \in DOMAIN d THEN "none"
               ELSE "AssertionError")
         ELSE "ValueError"

\* lines 75-77: the end points are swapped when the check says so.
Flip(part) ==
    IF ~part.oriented
    THEN [part EXCEPT !.start_point = part.end_point,
                      !.end_point = part.start_point]
    ELSE part

\* lines 52-77: the particle loop from position i on: [err, parts].
RECURSIVE ProcessFrom(_, _, _, _)
ProcessFrom(parts, i, meth, d) ==
    IF i > Len(parts) THEN [err |-> "none", parts |-> parts]
    ELSE IF ~IsTrack(parts[i]) THEN ProcessFrom(parts, i + 1, meth, d)
    ELSE IF MethodError(meth, d) # "none"
         THEN [err |-> MethodError(meth, d), parts |-> parts]
         ELSE ProcessFrom([parts EXCEPT ![i] = Flip(parts[i])], i + 1, meth, d)

\* TrackExtremaProcessor.process(data) on one entry.
TrackProcess ==
    /\ tpc = "idle"
    /\ LET r == ProcessFrom(data["reco_particles"], 1, method, data) IN
        /\ data' = [data EXCEPT !["reco_particles"] = r.parts]
        /\ terr' = r.err
        /\ tpc' = IF r.err = "none" THEN "done" ELSE "raised"
    /\ UNCHANGED <<method, postVars, buildVars>>

NextTrack == TrackProcess

(***************************************************************************)
(* Initial states                                                          *)
(***************************************************************************)
PostOff ==
    /\ cfg = <<>>
    /\ modules = <<>>
    /\ moduleOut = {}
    /\ ppc = "off"
    /\ mi = 0
    /\ key = "none"
    /\ watchLog = <<>>
    /\ callLog = <<>>
    /\ written = {}
    /\ perr = "none"

BuildOff ==
    /\ sources = DefaultSources
    /\ managers = <<>>
    /\ mode = "both"
    /\ units = "cm"
    /\ builders = <<>>
    /\ objChoices = "none"
    /\ bpc = "off"
    /\ bi = 0
    /\ load = FALSE
    /\ update = <<>>
    /\ buildLog = <<>>
    /\ bwritten = {}
    /\ berr = "none"

TrackOff ==
    /\ method = "local"
    /\ tpc = "off"
    /\ terr = "none"

InitPostWith(cfgs, shapes, indexes) ==
    /\ cfg \in cfgs
    /\ modules \in PostManagerInit(cfg)
    /\ moduleOut = shapes
    /\ \E ix \in indexes : data = [k \in {"index"} |-> ix]
    /\ ppc = "idle"
    /\ mi = 0
    /\ key = "none"
    /\ watchLog = <<>>
    /\ callLog = <<>>
    /\ written = {}
    /\ perr = "none"
    /\ BuildOff
    /\ TrackOff

\* The input dictionary with index ix and the keys ks.
InputData(ix, ks) ==
    [k \in ks \cup {"index"} |->
        CASE k = "index" -> ix
          [] k = "meta" -> Field(ix, [e \in 0..MaxEntries |-> Meta(e)])
          [] k \in {"particles", "neutrinos"} ->
                Field(ix, [e \in 0..MaxEntries |-> TrueObjects(e)])
          [] k \in Range(OverrideKeys) ->
                Field(ix, [e \in 0..MaxEntries |-> PointArray(k, e)])
          [] k = "points" ->
                Field(ix, [e \in 0..MaxEntries |->
                    [PointArray(k, e) EXCEPT !.units = "cm"]])
          [] OTHER -> Field(ix, [e \in 0..MaxEntries |-> Tensor(k, e)])]

InitBuildWith(keysets, objs, indexes, modes, unitset, bconfigs, overrides) ==
    /\ \E ov \in overrides :
        /\ OverrideAccepted(DefaultSources, ov)
        /\ sources = ParseSources(DefaultSources, ov)
        /\ builders \in bconfigs
        /\ managers = <<Manager(ov, builders)>>
    /\ mode \in modes
    /\ units \in unitset
    /\ objChoices = objs
    /\ \E ix \in indexes, ks \in keysets : data = InputData(ix, ks)
    /\ bpc = "idle"
    /\ bi = 0
    /\ load = FALSE
    /\ update = <<>>
    /\ buildLog = <<>>
    /\ bwritten = {}
    /\ berr = "none"
    /\ PostOff
    /\ TrackOff

\* Source study: which keys the raw chain output holds.
SourceStudyKeys ==
    {"data_adapt", "data", "clust_label_adapt", "clust_label", "meta",
     "particles", "particle_start_points"}

InitSources ==
    InitBuildWith(SUBSET SourceStudyKeys, "none",
                  IndexValues, {"reco", "both"}, {"px", "cm"},
                  {<<"particle">>}, SourceOverrides)

\* Match study: stored objects with any match attributes.
InitMatch ==
    InitBuildWith({{"points", "meta"}}, "rich",
                  {ix \in IndexValues : ix.n <= 1}, {"both"}, {"cm"},
                  {<<"particle">>}, {NoOverride})

\* Orchestration study: every builder configuration and mode, on a raw chain
\* output and on stored objects.
InitOrchestration ==
    InitBuildWith({{"points", "meta"},
                   {"data", "clust_label", "meta", "particles",
                    "clust_label_g4", "sources", "fragment_end_points"}},
                  "plain", IndexValues, Modes, {"cm"},
                  BuilderConfigs, {NoOverride})

InitBuild == InitSources \/ InitMatch \/ InitOrchestration

InitTrack ==
    /\ method \in Methods
    /\ \E parts \in ParticleLists(MaxParticles), ppn \in BOOLEAN :
        data = [k \in {"reco_particles"}
                        \cup (IF ppn THEN {"ppn_candidates"} ELSE {}) |->
                    IF k = "reco_particles" THEN parts ELSE <<>>]
    /\ tpc = "idle"
    /\ terr = "none"
    /\ PostOff
    /\ BuildOff

\* Ordering study: every configuration of up to MaxModules modules.
InitPostOrder ==
    InitPostWith(Configs(MaxModules), PlainShapes,
                 {ix \in IndexValues : ix.n <= 1})
SpecPostOrder == InitPostOrder /\ [][NextPost]_vars

\* Result study: the richer module results on short configurations.
InitPost == InitPostWith(Configs(MaxRunModules), RichShapes, IndexValues)
SpecPost == InitPost /\ [][NextPost]_vars

SpecBuild == InitBuild /\ [][NextBuild]_vars

SpecTrack == InitTrack /\ [][NextTrack]_vars

\* Class study: a process that constructs BuildManager instances, starting
\* from the class as the class body leaves it.
InitClass ==
    /\ data = [k \in {"index"} |-> CHOOSE ix \in IndexValues : ix.scalar]
    /\ PostOff
    /\ BuildOff
    /\ TrackOff

SpecClass == InitClass /\ [][NextClass]_vars

Init == InitPost \/ InitBuild \/ InitTrack \/ InitClass
Next == NextPost \/ NextBuild \/ NextTrack \/ NextClass
Spec == Init /\ [][Next]_vars

(***************************************************************************)
(* Properties of PostManager                                               *)
(***************************************************************************)
PriorityOf(k) == Priority(cfg[DeclIndex(k)])

\* The module invoked by the t-th invocation of a call, were the modules run
\* in the order of self.modules: one invocation per module in single-entry
\* mode, one per entry in batched mode.
ExpectedCall(t) ==
    IF IsScalar(data) THEN <<modules[t], 0>>
    ELSE <<modules[((t - 1) \div data["index"].n) + 1],
           (t - 1) % data["index"].n>>

RunsInModuleOrder ==
    \A t \in 1..Len(callLog) : callLog[t] = ExpectedCall(t)

\* C1 (as stated): self.modules is the stable descending-priority sort of
\* the declared modules (equal priorities keep their declaration order), a
\* module without `priority` counting as -1, and __call__ runs the modules in
\* that order.
C1_StableOrder ==
    ppc # "off" =>
        /\ \A i, j \in 1..Len(modules) : i < j =>
            \/ PriorityOf(modules[i]) > PriorityOf(modules[j])
            \/ /\ PriorityOf(modules[i]) = PriorityOf(modules[j])
               /\ DeclIndex(modules[i]) < DeclIndex(modules[j])
        /\ RunsInModuleOrder

\* What __init__ and __call__ do ensure: self.modules holds every declared
\* module once, in non-increasing priority (a module without `priority`
\* counting as -1), and the t-th invocation made by __call__ is the one of
\* that order.
DescendingOrder ==
    ppc # "off" =>
        /\ Len(modules) = Len(cfg)
        /\ {DeclIndex(modules[i]) : i \in 1..Len(modules)} = 1..Len(cfg)
        /\ \A i, j \in 1..Len(modules) : i < j =>
                PriorityOf(modules[i]) >= PriorityOf(modules[j])
        /\ \A i \in 1..Len(cfg) : ~cfg[i].has => PriorityOf(ModuleKeys[i]) = -1
        /\ RunsInModuleOrder

\* The configuration [5, -1, 5, 10] has been run to the end, here in the
\* order 10, 5 (declared first), 5 (declared second), -1.
StableExampleRun ==
    /\ ppc = "done"
    /\ Len(cfg) = 4
    /\ \A i \in 1..4 : cfg[i].has
    /\ <<cfg[1].priority, cfg[2].priority, cfg[3].priority, cfg[4].priority>>
            = <<5, -1, 5, 10>>
    /\ modules = <<"m4", "m1", "m3", "m2">>
    /\ Len(callLog) = 4

\* C10 (as stated): every stop event of the stopwatch follows a start event
\* of the same module key, and every start is that of the module invoked.
C10_StopMatchesStart ==
    \A i \in 1..Len(watchLog) :
        /\ watchLog[i].op = "stop" =>
            /\ i > 1
            /\ watchLog[i - 1].op = "start"
            /\ watchLog[i - 1].key = watchLog[i].key
        /\ watchLog[i].op = "start" =>
            /\ i < Len(watchLog)
            /\ watchLog[i + 1] = [op |-> "stop", key |-> watchLog[i].key]
            /\ watchLog[i].key \in Range(modules)

\* The module invocations of a single-entry call: the first i modules, once
\* each, with the dictionary alone (entry 0 stands for "no entry argument").
ScalarCalls(i) == [j \in 1..i |-> <<modules[j], 0>>]

\* C11 (as stated): in single-entry mode (scalar index) the call raises no
\* error, every module is invoked once in turn, and once a module has
\* returned a field that field is in the shared dictionary, written by the
\* call, before the next module runs or the call returns.
C11_ScalarMerges ==
    (IsScalar(data) /\ ppc # "off") =>
        /\ perr = "none"
        /\ ppc # "raised"
        /\ callLog = ScalarCalls(Len(callLog))
        /\ (callLog # <<>> /\ key \notin Range(modules)) =>
                /\ key \in DOMAIN data
                /\ key \in written

(***************************************************************************)
(* Properties of BuildManager.load_match_pairs                             *)
(***************************************************************************)
EntriesOf(d) ==
    IF IsScalar(d) THEN {NoEntry} ELSE {<<e>> : e \in 0..(d["index"].n - 1)}

\* The object types whose match fields are in the dictionary.
PairedNames == {name \in Range(builders) : MatchFields(name) \subseteq DOMAIN data}

Directions == {<<"reco", "truth", "r2t">>, <<"truth", "reco", "t2r">>}

\* The pair lists of the dictionary: for every object type, direction and
\* entry, the source list S, the target list T, the pairs and the overlaps.
PairCases ==
    {[S |-> AtEntry(data[ObjKey(c[2][1], c[1])], c[3]),
      T |-> AtEntry(data[ObjKey(c[2][2], c[1])], c[3]),
      pairs |-> AtEntry(data[MatchKey(c[1], c[2][3])], c[3]),
      overlaps |-> AtEntry(data[OverlapKey(c[1], c[2][3])], c[3])] :
        c \in PairedNames \X Directions \X EntriesOf(data)}

SentinelsRight(S, T, pairs, overlaps) ==
    /\ \A i \in 1..Len(S) : ~S[i].is_matched =>
        /\ Cardinality({j \in 1..Len(pairs) : pairs[j][1] = S[i]}) = 1
        /\ pairs[i] = <<S[i], None>>
        /\ overlaps[i] = -10
    /\ \A j \in 1..Len(pairs) :
        (pairs[j][2] = None \/ overlaps[j] = -10) =>
            \E i \in 1..Len(S) : pairs[j][1] = S[i] /\ ~S[i].is_matched

\* C2: in each direction every unmatched source object appears exactly once,
\* as (object, None) with overlap -1.0 at the same position, and only
\* unmatched objects get a None target or the -1.0 overlap.
C2_Sentinels ==
    bpc # "off" =>
        \A c \in PairCases : SentinelsRight(c.S, c.T, c.pairs, c.overlaps)

\* A list of an unmatched and a matched object has been paired.
C2_Witness ==
    /\ bpc = "done"
    /\ \E c \in PairCases :
        /\ Len(c.S) = 2
        /\ ~c.S[1].is_matched
        /\ c.S[2].is_matched
        /\ c.pairs[1][2] = None
        /\ c.overlaps[1] = -10
        /\ c.pairs[2][2] # None

BestIsFirst(S, T, pairs, overlaps) ==
    \A i \in 1..Len(S) : (S[i].is_matched /\ Len(S[i].match_ids) >= 1) =>
        /\ i <= Len(pairs)
        /\ pairs[i] = <<S[i], T[S[i].match_ids[1] + 1]>>
        /\ overlaps[i] = S[i].match_overlaps[1]

\* C3: a matched source object is paired with the target at its first match
\* index, with its first overlap, whatever follows in its match lists.
C3_BestMatchFirst ==
    bpc # "off" =>
        \A c \in PairCases : BestIsFirst(c.S, c.T, c.pairs, c.overlaps)

\* An object with match_ids [1, 0] and overlaps [0.4, 0.9] is paired with
\* target 1 and overlap 0.4.
C3_Witness ==
    /\ bpc = "done"
    /\ \E c \in PairCases :
        \E i \in 1..Len(c.S) :
            /\ c.S[i].match_ids = <<1, 0>>
            /\ c.S[i].match_overlaps = <<4, 9>>
            /\ c.pairs[i][2] = c.T[2]
            /\ c.overlaps[i] = 4

OrderKept(S, T, pairs, overlaps) ==
    /\ Len(pairs) = Len(S)
    /\ Len(overlaps) = Len(S)
    /\ \A i \in 1..Len(S) : pairs[i][1] = S[i]
    \* the lists are as the builder left them
    /\ \A i \in 1..Len(S) : S[i].id = i - 1
    /\ \A i \in 1..Len(T) : T[i].id = i - 1

\* C4: in each direction the pair list and the overlap list are as long as
\* the source list, the i-th pair starts with the i-th source object, and
\* the object lists are left as they were.
C4_OrderPreserved ==
    bpc # "off" =>
        \A c \in PairCases : OrderKept(c.S, c.T, c.pairs, c.overlaps)

\* In a batch, a matched object behind an unmatched one kept its place.
C4_Witness ==
    /\ bpc = "done"
    /\ ~IsScalar(data)
    /\ \E c \in PairCases :
        /\ Len(c.S) = 2
        /\ ~c.S[1].is_matched
        /\ c.S[2].is_matched
        /\ Len(c.pairs) = 2
        /\ c.pairs[1][1] = c.S[1]
        /\ c.pairs[2][1] = c.S[2]

(***************************************************************************)
(* Properties of the batched mode of both managers                         *)
(***************************************************************************)
AllMatchKeys == UNION {{MatchKey(n, "r2t"), MatchKey(n, "t2r")} :
                        n \in {"fragment", "particle", "interaction"}}
AllOverlapKeys == UNION {{OverlapKey(n, "r2t"), OverlapKey(n, "t2r")} :
                        n \in {"fragment", "particle", "interaction"}}

\* Whether the value v a BuildManager field holds for entry e stems from
\* entry e.
FromEntry(k, v, e) ==
    IF k \in AllOverlapKeys THEN TRUE
    ELSE IF k \in AllMatchKeys
         THEN \A i \in 1..Len(v) : v[i][1].entry = e
    ELSE IF k \in {"particles", "neutrinos"}
         THEN \A i \in 1..Len(v) : v[i].entry = e
    ELSE v.entry = e

\* C5: in batched mode every field a manager wrote into the dictionary is a
\* list with one element per entry, element e stemming from entry e.
C5_BatchAligned ==
    /\ (ppc # "off" /\ ~IsScalar(data)) =>
        \A f \in written :
            /\ Len(data[f]) = data["index"].n
            /\ \A e \in 1..Len(data[f]) : data[f][e].entry = e - 1
    /\ (bpc # "off" /\ ~IsScalar(data)) =>
        \A k \in bwritten :
            /\ Len(data[k]) = data["index"].n
            /\ \A e \in 1..Len(data[k]) : FromEntry(k, data[k][e], e - 1)

\* A batch of at least two entries went through BuildManager.__call__, which
\* wrote the source fields of every entry.
C5_Witness ==
    /\ bpc = "done"
    /\ ~IsScalar(data)
    /\ data["index"].n >= 2
    /\ {"points", "depositions", "particles"} \subseteq bwritten
    /\ Len(data["points"]) = data["index"].n

(***************************************************************************)
(* Properties of BuildManager.__call__                                     *)
(***************************************************************************)
BuilderOrder == <<"fragment", "particle", "interaction">>

\* The builders that have run, in order.
BuiltSoFar == SelectSeq(buildLog, LAMBDA ev : ev[1] = "build")

FixedBuilderOrder ==
    /\ builders = SelectSeq(BuilderOrder, LAMBDA n : n \in Range(builders))
    /\ bpc \in {"loop", "done"} =>
        BuiltSoFar = [i \in 1..(bi - 1) |-> <<"build", builders[i]>>]

\* C6 (as stated): in mode 'both' or 'all', once a builder has run the four
\* match fields of its object type are in the dictionary (before the next
\* builder runs), whether the objects were built or loaded.
C6_PairsAfterEveryBuilder ==
    (bpc \in {"loop", "done"} /\ mode \in {"both", "all"}) =>
        /\ FixedBuilderOrder
        /\ \A i \in 1..(bi - 1) : MatchFields(builders[i]) \subseteq DOMAIN data

\* C6 (amended): the builders run in the order fragment, particle,
\* interaction; when the objects are loaded ('points' was in the dictionary)
\* and the mode is 'both' or 'all', each builder run is directly followed by
\* the match-pair load of its type, whose four fields are in the dictionary
\* before the next builder runs; otherwise no match pair is loaded and the
\* manager writes no match field.
C6_PairsWhenLoaded ==
    bpc \in {"loop", "done"} =>
        /\ FixedBuilderOrder
        /\ (load /\ mode \in {"both", "all"}) =>
            /\ Len(buildLog) = 2 * (bi - 1)
            /\ \A i \in 1..(bi - 1) :
                /\ buildLog[2 * i - 1] = <<"build", builders[i]>>
                /\ buildLog[2 * i] = <<"match", builders[i]>>
                /\ MatchFields(builders[i]) \subseteq DOMAIN data
                /\ \A k \in MatchFields(builders[i]) :
                        data[k] = CallMatchPairs(data, builders[i])[k]
        /\ ~(load /\ mode \in {"both", "all"}) =>
            /\ \A i \in 1..Len(buildLog) : buildLog[i][1] = "build"
            /\ bwritten \cap (AllMatchKeys \cup AllOverlapKeys) = {}
            /\ DOMAIN data \cap (AllMatchKeys \cup AllOverlapKeys) = {}

\* Loaded objects of all three types got their match pairs in mode 'all'.
C6_Witness ==
    /\ bpc = "done"
    /\ load
    /\ mode = "all"
    /\ builders = BuilderOrder
    /\ Len(buildLog) = 6
    /\ \A n \in Range(BuilderOrder) : MatchFields(n) \subseteq DOMAIN data

(***************************************************************************)
(* Properties of BuildManager.build_sources                                *)
(***************************************************************************)
\* The position of the first candidate key of canonical field c that the
\* dictionary d holds (0: none).
FirstIndex(c, d) ==
    LET present == {i \in 1..Len(sources[c].alts) : sources[c].alts[i] \in DOMAIN d}
    IN IF present = {} THEN 0
       ELSE CHOOSE i \in present : \A j \in present : i <= j

\* A field of `update` that is derived from canonical field c alone.
DerivedField(c) ==
    CASE c = "data_tensor" -> "points"
      [] c = "label_tensor" -> "points_label"
      [] c = "label_adapt_tensor" -> "depositions_label_adapt"
      [] c = "label_g4_tensor" -> "points_g4"
      [] c = "depositions_q_label" -> "depositions_q_label"
      [] c = "sources" -> "sources"
      [] c = "sources_label" -> "sources_label"

TensorFields == CanonicalKeys \ {"particles", "neutrinos"}

Required(c) ==
    \/ c = "data_tensor"
    \/ mode # "reco" /\ c \in {"label_tensor", "label_adapt_tensor"}

\* Whether build_sources reads canonical field c at all.
Read(c) == mode # "reco" \/ c \notin {"label_tensor", "label_adapt_tensor",
                                      "depositions_q_label"}

\* C7: each canonical field is taken from the first of its candidate keys
\* that the dictionary holds, at the entry asked for; a canonical field
\* without any candidate in the dictionary is skipped, and only raises a
\* KeyError where build_sources goes on to read it.
C7_FirstCandidate ==
    /\ update # <<>> =>
        \A c \in TensorFields :
            LET i == FirstIndex(c, update.before) IN
            /\ (i > 0 /\ Read(c)) =>
                /\ DerivedField(c) \in DOMAIN update.fields
                /\ update.fields[DerivedField(c)].origin = sources[c].alts[i]
                /\ update.fields[DerivedField(c)].entry = EntryNo(update.entry)
            /\ i = 0 =>
                /\ ~Required(c)
                /\ DerivedField(c) \notin DOMAIN update.fields
    /\ (bpc = "raised" /\ berr = "KeyError") =>
        \E c \in TensorFields : Required(c) /\ FirstIndex(c, data) = 0
    /\ (bpc \in {"loop", "done"} /\ ~load) =>
        \A c \in TensorFields : Required(c) => FirstIndex(c, data) > 0

\* Both candidates of the data tensor are in a batch; entry 1 took the first
\* one, and the absent true particles were skipped.
C7_Witness ==
    /\ update # <<>>
    /\ {"data_adapt", "data"} \subseteq DOMAIN update.before
    /\ sources["data_tensor"].alts = <<"data_adapt", "data">>
    /\ update.fields["points"].origin = "data_adapt"
    /\ update.entry = <<1>>
    /\ "particles" \notin DOMAIN update.before
    /\ "particles" \notin DOMAIN update.fields

PointFields(u) == {k \in DOMAIN u.fields : HasPointsInName(k)}

\* The array a points field of `update` is made from: an override array of
\* the dictionary, or the coordinate columns of the resolved tensor.
RawPoints(u, k) ==
    IF k \in Range(OverrideKeys) THEN AtEntry(u.before[k], u.entry)
    ELSE LET c == CHOOSE c \in TensorFields : DerivedField(c) = k
         IN Coords(AtEntry(u.before[sources[c].alts[FirstIndex(c, u.before)]],
                           u.entry))

TrueObjectFields(u) == {"particles", "neutrinos"} \cap DOMAIN u.fields

\* C8 (as stated): geometry that is in the target units already is not
\* converted again, true objects are converted only when their tag differs,
\* and the input arrays are not modified; for every field with 'points' in
\* its name.
C8_TagGuarded ==
    update # <<>> =>
        /\ \A k \in PointFields(update) :
            RawPoints(update, k).units = units =>
                update.fields[k] = RawPoints(update, k)
        /\ \A k \in TrueObjectFields(update) :
            \A i \in 1..Len(update.fields[k]) :
                AtEntry(update.before[k], update.entry)[i].units = units =>
                    update.fields[k][i] = AtEntry(update.before[k], update.entry)[i]
        /\ \A k \in DOMAIN update.before \ {"particles", "neutrinos"} :
            update.after[k] = update.before[k]

\* C8 (amended): arrays carry no units tag.  With target units other than
\* 'px', every call of build_sources converts every field with 'points' in
\* its name once, whatever units its coordinates are in, and with target
\* units 'px' it converts nothing; only true objects are guarded by their
\* tag (converted when it differs from the target, left alone otherwise);
\* the arrays of the dictionary are not modified.  __call__ does not build the
\* sources of a dictionary that holds 'points' already.
C8_ConvertedOncePerCall ==
    /\ update # <<>> =>
        /\ \A k \in PointFields(update) :
            LET raw == RawPoints(update, k)
                meta == AtEntry(update.before["meta"], update.entry)
            IN IF units = "px" THEN update.fields[k] = raw
               ELSE /\ update.fields[k].x =
                            2 * meta.lower + meta.size * (2 * raw.x + 1)
                    /\ update.fields[k].units # raw.units
                    /\ raw.units = "px" => update.fields[k].units = "cm"
        /\ \A k \in TrueObjectFields(update) :
            \A i \in 1..Len(update.fields[k]) :
                LET old == AtEntry(update.before[k], update.entry)[i]
                    new == update.fields[k][i]
                    meta == AtEntry(update.before["meta"], update.entry)
                IN /\ units # "px"
                   /\ new = AtEntry(update.after[k], update.entry)[i]
                   /\ IF old.units = units THEN new = old
                      ELSE /\ new.units = "cm"
                           /\ new.x = 2 * meta.lower + meta.size * (2 * old.x + 1)
        /\ \A k \in DOMAIN update.before \ {"particles", "neutrinos"} :
            update.after[k] = update.before[k]
    /\ (bpc \in {"loop", "done"} /\ load) =>
        /\ bwritten \cap {"points", "depositions"} = {}
        /\ \A e \in EntriesOf(data) : AtEntry(data["points"], e).units = "cm"

\* build_sources converted the points, an override array and the true
\* particles of a dictionary to centimetres: one particle was in pixels, the
\* other in centimetres already.
C8_Witness ==
    /\ update # <<>>
    /\ units = "cm"
    /\ {"points", "particle_start_points", "particles"}
            \subseteq DOMAIN update.fields
    /\ update.fields["particle_start_points"].units = "cm"
    /\ AtEntry(update.before["particles"], update.entry)[1].units = "px"
    /\ update.fields["particles"][1].units = "cm"
    /\ update.fields["particles"][2] =
            AtEntry(update.before["particles"], update.entry)[2]

(***************************************************************************)
(* Properties of TrackExtremaProcessor                                     *)
(***************************************************************************)
Recognised == {"local", "gradient", "ppn"}

\* The particles as they were handed to process(): nothing but the two end
\* points of a particle ever changes.
Unswapped(parts) ==
    \A i \in 1..Len(parts) :
        parts[i].start_point = 2 * parts[i].id + 1
            /\ parts[i].end_point = 2 * parts[i].id + 2

\* C9 (as stated): with an unrecognised method, processing any entry raises
\* and swaps no end point.
C9_AlwaysRaises ==
    (tpc \in {"done", "raised"} /\ method \notin Recognised) =>
        /\ tpc = "raised"
        /\ terr = "ValueError"
        /\ Unswapped(data["reco_particles"])

\* C9 (amended): with an unrecognised method, processing an entry raises a
\* ValueError exactly when the entry holds a track-shaped particle, and
\* returns silently otherwise; no end point is swapped either way.
C9_RaisesOnTracks ==
    (tpc \in {"done", "raised"} /\ method \notin Recognised) =>
        /\ Unswapped(data["reco_particles"])
        /\ IF \E i \in 1..Len(data["reco_particles"]) :
                    data["reco_particles"][i].shape = 1
           THEN tpc = "raised" /\ terr = "ValueError"
           ELSE tpc = "done" /\ terr = "none"

\* An entry with a track behind a shower made process() raise.
C9_Witness ==
    /\ tpc = "raised"
    /\ method \notin Recognised
    /\ Len(data["reco_particles"]) = 2
    /\ data["reco_particles"][1].shape = 0
    /\ data["reco_particles"][2].shape = 1

(***************************************************************************)
(* Properties of the BuildManager class attribute `sources`                *)
(***************************************************************************)
\* The candidate lists an instance constructed alone with the `sources`
\* argument ov resolves its fields with.
OwnSources(ov) == ParseSources(DefaultSources, ov)

\* C12 (as stated): the source-name mapping is per-instance.  Every instance
\* constructed so far resolves each canonical field with the candidate keys
\* of its own `sources` argument over the defaults (the default lists for an
\* instance constructed without one), whatever other instances were
\* constructed before or after it, and the canonical names never change.
C12_PerInstanceSources ==
    /\ DOMAIN sources = CanonicalKeys
    /\ \A i \in 1..Len(managers) :
        /\ DOMAIN SourcesOf(i) = CanonicalKeys
        /\ \A c \in CanonicalKeys :
            SourcesOf(i)[c].alts = OwnSources(managers[i].override)[c].alts

====
